---- MODULE Spec2Model ----
(***************************************************************************)
(* Model of the food donation chatbot (src/main.py): the chat loop         *)
(* run_chat, the message router process_message, and the two tools it      *)
(* calls, find_recipients and log_donation_request.                        *)
(*                                                                         *)
(* Text is a sequence of one-character strings, so that lower(), strip(),  *)
(* the substring tests and the regular expression are computed on the      *)
(* characters. A dict is a function whose DOMAIN is the set of keys that   *)
(* are present. A literal piece of text the program never looks into (a    *)
(* prompt, an error text) is a single element of the sequence; the emoji   *)
(* the source puts in front of its replies are left out.                   *)
(***************************************************************************)
EXTENDS Integers, Sequences, FiniteSets, TLC

VARIABLES
    pc,                    \* where run_chat is: "input", "in_lookup", "in_ledger", "stopped"
    conversation_context,  \* self.conversation_context
    cached_organizations,  \* self.cached_organizations
    sheet,                 \* the rows of the Google Sheet
    user_input,            \* the text given to process_message last (NoMessage: none)
    response,              \* what process_message returned last (<<>> during a call)
    call,                  \* the tool call in progress and its arguments
    result_data,           \* the payload find_recipients returned for the last message
    log_result,            \* the payload log_donation_request returned for the last message
    prev_cache,            \* the cache as it was when the last message arrived
    shown,                 \* the organizations listed in the reply to the last search
    hist,                  \* the pending steps answered, and with which message, since
                           \* the last successful search; emptied when the context is cleared
    turns                  \* inputs read so far

vars == <<pc, conversation_context, cached_organizations, sheet, user_input, response,
          call, result_data, log_result, prev_cache, shown, hist, turns>>

(***************************************************************************)
(* Bounds                                                                  *)
(***************************************************************************)
\* longest list of places the places_nearby call returns in the model
MaxPlaces == 2
\* number of inputs the chat loop reads in the model
MaxTurns == 4

(***************************************************************************)
(* Text                                                                    *)
(***************************************************************************)
UpperChars == <<"A","B","C","D","E","F","G","H","I","J","K","L","M",
                "N","O","P","Q","R","S","T","U","V","W","X","Y","Z">>
LowerChars == <<"a","b","c","d","e","f","g","h","i","j","k","l","m",
                "n","o","p","q","r","s","t","u","v","w","x","y","z">>

LowerChar(c) ==
    IF \E i \in 1..Len(UpperChars) : UpperChars[i] = c
    THEN LowerChars[CHOOSE i \in 1..Len(UpperChars) : UpperChars[i] = c]
    ELSE c

\* str.lower()
Lower(s) == [i \in 1..Len(s) |-> LowerChar(s[i])]

\* the characters str.strip() removes and \s matches
IsSpace(c) == c \in {" ", "\t"}

\* str.strip()
Strip(s) ==
    LET keep == {i \in 1..Len(s) : ~IsSpace(s[i])}
    IN  IF keep = {} THEN <<>>
        ELSE LET first == CHOOSE i \in keep : \A j \in keep : i <= j
                 last  == CHOOSE i \in keep : \A j \in keep : j <= i
             IN  SubSeq(s, first, last)

\* sub in s
Contains(s, sub) ==
    \E i \in 1..(Len(s) - Len(sub) + 1) : SubSeq(s, i, i + Len(sub) - 1) = sub

\* the positions where re.search(r'in\s(.+)', s, re.IGNORECASE) can match
InMatches(s) ==
    {i \in 1..(Len(s) - 3) : /\ LowerChar(s[i]) = "i"
                             /\ LowerChar(s[i+1]) = "n"
                             /\ IsSpace(s[i+2])}

\* re.search(r'in\s(.+)', s, re.IGNORECASE): NoMatch, or group(1) of the
\* leftmost match (the group is greedy and runs to the end of the text)
NoMatch == <<"<no match>">>
LocationMatch(s) ==
    IF InMatches(s) = {} THEN NoMatch
    ELSE LET i == CHOOSE k \in InMatches(s) : \A j \in InMatches(s) : k <= j
         IN  SubSeq(s, i + 3, Len(s))

(***************************************************************************)
(* Messages the user types                                                 *)
(***************************************************************************)
T_empty   == <<>>
T_yes     == <<"y","e","s">>
T_YES     == <<"Y","E","S">>
T_no      == <<"N","o">>
T_name    == <<"A","s","h","a">>
T_search  == <<"f","i","n","d"," ","i","n"," ","P","u","n","e">>
T_donate  == <<"D","o","n","a","t","e">>
T_find_in == <<"f","i","n","d"," ","i","n"," ">>
T_bye     == <<"B","y","e">>

Cores == {T_empty, T_yes, T_YES, T_no, T_name, T_search, T_donate, T_find_in, T_bye}

Pads == {<<>>, <<" ">>}

\* what input() can return: a core, bare or with blanks around it
RawInputs == {p \o c \o p : p \in Pads, c \in Cores}

(***************************************************************************)
(* Dicts                                                                   *)
(***************************************************************************)
EmptyDict == [k \in {} |-> TRUE]

\* d[k] = v
Put(d, k, v) == [x \in (DOMAIN d) \cup {k} |-> IF x = k THEN v ELSE d[x]]

\* the truth value of d.get(k) for a key that holds a boolean
Truthy(d, k) == k \in DOMAIN d /\ d[k] = TRUE

\* d.get(k, default)
Get(d, k, default) == IF k \in DOMAIN d THEN d[k] ELSE default

\* s[:n]
Take(s, n) == SubSeq(s, 1, IF Len(s) < n THEN Len(s) ELSE n)

(***************************************************************************)
(* The Google Maps service, as find_recipients sees it                     *)
(***************************************************************************)
\* what gmaps.place returns under 'result' for each place id
PlaceDetails ==
    [p \in {"p1", "p2"} |->
        IF p = "p1"
        THEN [name |-> <<"Food Bank A">>, vicinity |-> <<"1 Main St">>,
              formatted_phone_number |-> <<"011-1">>,
              website |-> <<"a.org">>, rating |-> <<"4.5">>]
        ELSE [name |-> <<"Charity B">>]]

\* one entry of places_result['results']: a dict with or without a place_id
PlaceEntries == {Put(EmptyDict, "place_id", "p1"),
                 Put(EmptyDict, "place_id", "p2"),
                 EmptyDict}

PlaceLists == UNION {[1..n -> PlaceEntries] : n \in 0..MaxPlaces}

\* the environment of one find_recipients call: the API key, what geocode
\* finds, the call that raises, what places_nearby returns. A field the call
\* never gets to read has one value only.
LookupEnvs ==
    {e \in [api_key : {"missing", "invalid", "valid"},
            geocode : {"empty", "found"},
            raises  : {"none", "geocode", "places_nearby", "place"},
            places  : PlaceLists] :
        /\ e.api_key # "valid" => e.geocode = "found" /\ e.raises = "none"
        /\ e.raises = "geocode" => e.geocode = "found"
        /\ (e.api_key # "valid" \/ e.geocode = "empty"
              \/ e.raises \in {"geocode", "places_nearby"}) => e.places = <<>>}

\* radius / result limit of find_recipients
MaxRecipients == 5

\* lines 79-85: the dict built for one place
Recipient(place_details) ==
    [name    |-> Get(place_details, "name", <<"N/A">>),
     address |-> Get(place_details, "vicinity", <<"N/A">>),
     phone   |-> Get(place_details, "formatted_phone_number", <<"Not available">>),
     website |-> Get(place_details, "website", <<"Not available">>),
     rating  |-> Get(place_details, "rating", <<"N/A">>)]

\* lines 66-86: the loop over the first five places, skipping those
\* without a place_id
RECURSIVE DetailedRecipients(_)
DetailedRecipients(places) ==
    IF places = <<>> THEN <<>>
    ELSE IF "place_id" \notin DOMAIN Head(places)
         THEN DetailedRecipients(Tail(places))
         ELSE <<Recipient(PlaceDetails[Head(places)["place_id"]])>>
              \o DetailedRecipients(Tail(places))

\* does the loop call gmaps.place at all
CallsPlace(places) == \E i \in 1..Len(places) : "place_id" \in DOMAIN places[i]

ApiException == <<"HTTP Error">>

\* find_recipients(location): [raised, payload]
find_recipients(location, env) ==
    IF env.api_key = "missing"
    THEN [raised |-> FALSE,
          payload |-> Put(EmptyDict, "error", <<"Google API key not found.">>)]
    ELSE IF env.api_key = "invalid"
    THEN [raised |-> TRUE, payload |-> <<"Invalid API key provided.">>]
    ELSE IF env.raises = "geocode"
    THEN [raised |-> FALSE,
          payload |-> Put(Put(EmptyDict, "api_error", TRUE), "error", ApiException)]
    ELSE IF env.geocode = "empty"
    THEN [raised |-> FALSE,
          payload |-> Put(EmptyDict, "error",
                          <<"Could not find coordinates for '">> \o location \o <<"'">>)]
    ELSE IF env.raises = "places_nearby"
    THEN [raised |-> FALSE,
          payload |-> Put(Put(EmptyDict, "api_error", TRUE), "error", ApiException)]
    ELSE LET places == Take(env.places, MaxRecipients)
             detailed_recipients == DetailedRecipients(places)
         IN  IF env.raises = "place" /\ CallsPlace(places)
             THEN [raised |-> FALSE,
                   payload |-> Put(Put(EmptyDict, "api_error", TRUE), "error", ApiException)]
             ELSE IF detailed_recipients # <<>>
             THEN [raised |-> FALSE,
                   payload |-> Put(EmptyDict, "recipients", detailed_recipients)]
             ELSE [raised |-> FALSE,
                   payload |-> Put(EmptyDict, "message",
                                   <<"No organizations found via Google Places API.">>)]

(***************************************************************************)
(* JSON text of the organization list                                      *)
(***************************************************************************)
\* json.dumps of one organization dict: a token sequence
DumpOrg(o) ==
    <<"{", "name", o.name, "address", o.address, "phone", o.phone,
      "website", o.website, "rating", o.rating, "}">>

RECURSIVE DumpOrgs(_)
DumpOrgs(orgs) ==
    IF orgs = <<>> THEN <<>> ELSE DumpOrg(Head(orgs)) \o DumpOrgs(Tail(orgs))

\* json.dumps(self.cached_organizations)
JsonDumps(orgs) == <<"[">> \o DumpOrgs(orgs) \o <<"]">>

\* one organization dict read back from its twelve tokens: the braces and
\* five keys, each followed by its value
LoadOrg(t) == [name |-> t[3], address |-> t[5], phone |-> t[7],
               website |-> t[9], rating |-> t[11]]

RECURSIVE LoadOrgs(_)
LoadOrgs(tokens) ==
    IF Len(tokens) < 12 THEN <<>>
    ELSE <<LoadOrg(SubSeq(tokens, 1, 12))>>
         \o LoadOrgs(SubSeq(tokens, 13, Len(tokens)))

\* json.loads(organizations_json)
JsonLoads(json) == LoadOrgs(SubSeq(json, 2, Len(json) - 1))

(***************************************************************************)
(* The Google Sheet, as log_donation_request sees it                       *)
(***************************************************************************)
HeaderRow == <<<<"Donor Name">>, <<"Donor Phone">>, <<"NGO Name">>,
               <<"NGO Phone">>, <<"NGO Website">>, <<"Timestamp">>>>

\* a row an earlier session left in the sheet
OldRow == <<<<"Ravi">>, <<"444">>, <<"Old NGO">>, <<"N/A">>, <<"N/A">>,
            <<"ctime:old">>>>

\* the environment of one log_donation_request call
LedgerEnvs ==
    {e \in [sheet_id : {"missing", "set"},
            raises   : {"none", "keyfile", "authorize", "get_all_values",
                        "append_row", "append_rows"}] :
        e.sheet_id = "missing" => e.raises = "none"}

\* time.ctime()
Ctime(now) == <<"ctime:", ToString(now)>>

\* lines 128-135: the row for one organization
Row(user_name, user_phone, org, timestamp) ==
    <<user_name, user_phone, org.name, org.phone, org.website, timestamp>>

\* variant: the rows are built in reverse order
RowsToAdd_Reversed(user_name, user_phone, organizations, timestamp) ==
    [i \in 1..Len(organizations) |->
        Row(user_name, user_phone,
            organizations[Len(organizations) + 1 - i], timestamp)]

\* lines 125-136
RowsToAdd(user_name, user_phone, organizations, timestamp) ==
    [i \in 1..Len(organizations) |->
        Row(user_name, user_phone, organizations[i], timestamp)]

SheetError(e) ==
    Put(EmptyDict, "error",
        <<"An error occurred while writing to the sheet: ">> \o e)

LogSuccess ==
    Put(Put(EmptyDict, "success", TRUE), "message",
        <<"Request logged successfully in the Google Sheet.">>)

\* variant: the header row is appended whatever the sheet holds
NeedsHeader_Always(rows0) == TRUE

\* line 139: not sheet.get_all_values()
NeedsHeader(rows0) == rows0 = <<>>

\* log_donation_request(user_name, user_phone, organizations_json) on the
\* sheet rows0 at time now: [payload, sheet]
log_donation_request(user_name, user_phone, organizations_json, env, rows0, now) ==
    IF env.sheet_id = "missing"
    THEN [payload |-> Put(EmptyDict, "error",
                          <<"GOOGLE_SHEET_ID environment variable not set.">>),
          sheet |-> rows0]
    ELSE IF env.raises = "keyfile"
    THEN [payload |-> Put(EmptyDict, "error",
                          <<"service_account.json not found. Please ensure the file is in the correct directory.">>),
          sheet |-> rows0]
    ELSE IF env.raises \in {"authorize", "get_all_values"}
    THEN [payload |-> SheetError(ApiException), sheet |-> rows0]
    ELSE LET organizations == JsonLoads(organizations_json)
             rows_to_add == RowsToAdd(user_name, user_phone, organizations, Ctime(now))
             needs_header == NeedsHeader(rows0)
         IN  IF needs_header /\ env.raises = "append_row"
             THEN [payload |-> SheetError(ApiException), sheet |-> rows0]
             ELSE LET rows1 == IF needs_header THEN Append(rows0, HeaderRow) ELSE rows0
                  IN  IF rows_to_add # <<>> /\ env.raises = "append_rows"
                      THEN [payload |-> SheetError(ApiException), sheet |-> rows1]
                      ELSE [payload |-> LogSuccess,
                            sheet |-> IF rows_to_add # <<>>
                                      THEN rows1 \o rows_to_add ELSE rows1]

(***************************************************************************)
(* process_message                                                         *)
(***************************************************************************)
ASK_PHONE == <<"Thank you. Now, what is your phone number?">>
ASK_NAME  == <<"Great! To proceed, please provide your name.">>
DECLINED  == <<"Okay, I will not log this request. Is there anything else I can help you with?">>
CLARIFY   == <<"I can help with that! Please tell me the city you are in, for example: 'I want to donate in Delhi'.">>
HELP      == <<"I can help you find food donation centers. Please tell me what city you're in, like 'Where can I donate food in Delhi?'">>
ASK_LOG   == <<"\n\nWould you like me to log this request with these organizations for you? (yes/no)">>
NOT_FOUND == <<"I'm sorry, I couldn't find any organizations. Error: ">>
UNKNOWN   == <<"Unknown issue">>
UNEXPECTED == <<"\nAn unexpected error occurred: ">>

\* lines 268 and 276: the two farewells of run_chat
THANKS  == <<"\nThank you! Goodbye!">>
GOODBYE == <<"\n\nGoodbye!">>

K_find      == <<"f","i","n","d">>
K_donate    == <<"d","o","n","a","t","e">>
K_where_can == <<"w","h","e","r","e"," ","c","a","n">>

\* variant: the message is stripped but not lower-cased
MessageLower_CaseKept(message) == Strip(message)

\* line 190
MessageLower(message) == Strip(Lower(message))

\* variant: the flag of the step just answered is left set
AnswerName_FlagKept(ctx, message) ==
    Put(Put(ctx, "user_name", message), "awaiting_user_phone", TRUE)

\* variant: the name is not stored
AnswerName_NameNotStored(ctx, message) ==
    Put(Put(ctx, "awaiting_user_name", FALSE), "awaiting_user_phone", TRUE)

\* variant: an empty answer is refused and the name is asked for again
AnswerName_ReasksWhenEmpty(ctx, message) ==
    IF message = <<>>
    THEN ctx
    ELSE Put(Put(Put(ctx, "user_name", message),
                 "awaiting_user_name", FALSE),
             "awaiting_user_phone", TRUE)

\* lines 192-195: the message is the donor's name
AnswerName(ctx, message) ==
    Put(Put(Put(ctx, "user_name", message),
            "awaiting_user_name", FALSE),
        "awaiting_user_phone", TRUE)

\* lines 199-200: the message is the donor's phone
StorePhone(ctx, message) ==
    Put(Put(ctx, "user_phone", message), "awaiting_user_phone", FALSE)

\* conversation_context.get(key) when the key is absent
None == <<"None">>

\* variant: only the first cached organization is sent
LedgerArgs_FirstOnly(ctx, cache) ==
    [tool |-> "log_donation_request",
     user_name |-> Get(ctx, "user_name", None),
     user_phone |-> Get(ctx, "user_phone", None),
     organizations_json |-> JsonDumps(Take(cache, 1))]

\* lines 202-211: the arguments of the log_donation_request call
LedgerArgs(ctx, cache) ==
    [tool |-> "log_donation_request",
     user_name |-> Get(ctx, "user_name", None),
     user_phone |-> Get(ctx, "user_phone", None),
     organizations_json |-> JsonDumps(cache)]

\* variant: the context is cleared only when the call succeeded
ContextAfterLog_KeptOnFailure(ctx, result) ==
    IF Truthy(result, "success") THEN EmptyDict ELSE ctx

\* variant: the flags are dropped but the donor's identity stays
ContextAfterLog_IdentityKept(ctx, result) ==
    [k \in (DOMAIN ctx) \ {"awaiting_log_confirmation", "awaiting_user_name",
                           "awaiting_user_phone"} |-> ctx[k]]

\* line 214: the context once the call has returned, whatever it returned
ContextAfterLog(ctx, result) == EmptyDict

\* lines 216-219
LogResponse(result) ==
    IF Truthy(result, "success")
    THEN <<"OK ">> \o result["message"]
    ELSE <<"Error: ">> \o result["error"]

\* variant: everything but "no" counts as consent
AnswerConfirmation_UnlessNo(ctx, message_lower) ==
    IF message_lower # <<"n","o">>
    THEN [ctx |-> Put(Put(ctx, "awaiting_log_confirmation", FALSE),
                      "awaiting_user_name", TRUE),
          response |-> ASK_NAME]
    ELSE [ctx |-> EmptyDict, response |-> DECLINED]

\* lines 222-228: the message answers the yes/no question
AnswerConfirmation(ctx, message_lower) ==
    IF message_lower = <<"y","e","s">>
    THEN [ctx |-> Put(Put(ctx, "awaiting_log_confirmation", FALSE),
                      "awaiting_user_name", TRUE),
          response |-> ASK_NAME]
    ELSE [ctx |-> EmptyDict, response |-> DECLINED]

\* variant: a declined confirmation also empties the cache
CacheAfterConfirmation_ClearedOnDecline(cache, message_lower) ==
    IF message_lower = <<"y","e","s">> THEN cache ELSE <<>>

\* variant: the cache is emptied as soon as the question is answered
CacheAfterConfirmation_AlwaysCleared(cache, message_lower) == <<>>

\* lines 221-228: neither branch assigns self.cached_organizations
CacheAfterConfirmation(cache, message_lower) == cache

\* line 230
HasSearchKeyword(message_lower) ==
    \/ Contains(message_lower, K_find)
    \/ Contains(message_lower, K_donate)
    \/ Contains(message_lower, K_where_can)

\* variant: the cache is not emptied when a search begins
CacheAtSearchStart_Kept(cache) == cache

\* line 231: the cache when a search begins
CacheAtSearchStart(cache) == <<>>

\* variant: the search keywords are tested before the pending flags
Branch_SearchFirst(ctx, message_lower) ==
    IF HasSearchKeyword(message_lower) THEN "search"
    ELSE IF Truthy(ctx, "awaiting_user_name") THEN "name"
    ELSE IF Truthy(ctx, "awaiting_user_phone") THEN "phone"
    ELSE IF Truthy(ctx, "awaiting_log_confirmation") THEN "confirmation"
    ELSE "help"

\* variant: without a pending step every message is taken for a search
Branch_DefaultSearch(ctx, message_lower) ==
    IF Truthy(ctx, "awaiting_user_name") THEN "name"
    ELSE IF Truthy(ctx, "awaiting_user_phone") THEN "phone"
    ELSE IF Truthy(ctx, "awaiting_log_confirmation") THEN "confirmation"
    ELSE "search"

\* the order of the tests of process_message: lines 192, 198, 221, 230, 253
Branch(ctx, message_lower) ==
    IF Truthy(ctx, "awaiting_user_name") THEN "name"
    ELSE IF Truthy(ctx, "awaiting_user_phone") THEN "phone"
    ELSE IF Truthy(ctx, "awaiting_log_confirmation") THEN "confirmation"
    ELSE IF HasSearchKeyword(message_lower) THEN "search"
    ELSE "help"

\* line 242
HasRecipients(data) == "recipients" \in DOMAIN data /\ data["recipients"] # <<>>

\* variant: the organizations are cached in reverse order
CacheFromLookup_Reversed(data) ==
    [i \in 1..Len(data["recipients"]) |->
        data["recipients"][Len(data["recipients"]) + 1 - i]]

\* line 243: the cache after a lookup that found organizations
CacheFromLookup(data) == data["recipients"]

\* format_organizations, lines 175-185
RECURSIVE FormatFrom(_, _)
FormatFrom(orgs_data, i) ==
    IF orgs_data = <<>> THEN <<>>
    ELSE LET org == Head(orgs_data)
         IN  <<ToString(i), ". ">> \o org.name
             \o <<"\n   Address: ">> \o org.address
             \o <<"\n   Phone: ">> \o org.phone
             \o <<"\n   Website: ">> \o org.website \o <<"\n">>
             \o FormatFrom(Tail(orgs_data), i + 1)

format_organizations(orgs_data) ==
    IF orgs_data = <<>> THEN <<"No organizations found.">>
    ELSE FormatFrom(orgs_data, 1)

\* lines 244-246
FoundResponse(location, cache) ==
    <<"I found these organizations in ">> \o location \o <<":\n\n">>
    \o format_organizations(cache) \o ASK_LOG

\* line 251
NotFoundResponse(data) == NOT_FOUND \o Get(data, "error", UNKNOWN)

(***************************************************************************)
(* The pending step the three flags stand for                              *)
(***************************************************************************)
Flags == {"awaiting_log_confirmation", "awaiting_user_name", "awaiting_user_phone"}

ActiveFlags(ctx) == {f \in Flags : Truthy(ctx, f)}

PendingStep(ctx) ==
    IF Truthy(ctx, "awaiting_log_confirmation") THEN "AWAITING_LOG_CONFIRMATION"
    ELSE IF Truthy(ctx, "awaiting_user_name") THEN "AWAITING_NAME"
    ELSE IF Truthy(ctx, "awaiting_user_phone") THEN "AWAITING_PHONE"
    ELSE "IDLE"

(***************************************************************************)
(* run_chat: one action per way an iteration of the loop can go. The two   *)
(* tool calls are blocking; pc says whether the loop is at input() or      *)
(* inside a call.                                                          *)
(***************************************************************************)
NoCall == [tool |-> "none"]

NoMessage == <<"<no message>">>

ExitWords == {<<"q","u","i","t">>, <<"e","x","i","t">>, <<"b","y","e">>}

\* the sheet a session can start with: empty, or left by earlier sessions
InitialSheets == {<<>>, <<HeaderRow, OldRow>>}

Init ==
    /\ pc = "input"
    /\ conversation_context = EmptyDict
    /\ cached_organizations = <<>>
    /\ sheet \in InitialSheets
    /\ user_input = NoMessage
    /\ response = <<>>
    /\ call = NoCall
    /\ result_data = EmptyDict
    /\ log_result = EmptyDict
    /\ prev_cache = <<>>
    /\ shown = <<>>
    /\ hist = <<>>
    /\ turns = 0

\* variant: the line is handed on as typed
UserInput_NotStripped(raw) == raw

\* line 266: input(...).strip()
UserInput(raw) == Strip(raw)

\* lines 266-272: input() returned raw and it is not an exit word; the
\* payloads of the previous message's calls are gone
Reads(raw) ==
    /\ pc = "input"
    /\ turns < MaxTurns
    /\ Lower(UserInput(raw)) \notin ExitWords
    /\ turns' = turns + 1
    /\ result_data' = EmptyDict
    /\ log_result' = EmptyDict
    /\ prev_cache' = cached_organizations
    /\ user_input' = UserInput(raw)

\* the event recorded for a message that answers a pending step
Event(ctx, message) == [step |-> PendingStep(ctx), msg |-> message]

\* lines 267-269
Exit(raw) ==
    /\ pc = "input"
    /\ turns < MaxTurns
    /\ Lower(UserInput(raw)) \in ExitWords
    /\ pc' = "stopped"
    /\ turns' = turns + 1
    /\ user_input' = NoMessage
    /\ response' = THANKS
    /\ UNCHANGED <<conversation_context, cached_organizations, sheet,
                   call, result_data, log_result, prev_cache, hist>>
    /\ UNCHANGED shown

\* lines 192-196
HandleName(raw) ==
    LET message == UserInput(raw) IN
    /\ Reads(raw)
    /\ Branch(conversation_context, MessageLower(message)) = "name"
    /\ conversation_context' = AnswerName(conversation_context, message)
    /\ response' = ASK_PHONE
    /\ hist' = Append(hist, Event(conversation_context, message))
    /\ UNCHANGED <<pc, cached_organizations, sheet, call>>
    /\ UNCHANGED shown

\* lines 198-211, up to the call of log_donation_request
HandlePhone(raw) ==
    LET message == UserInput(raw) IN
    /\ Reads(raw)
    /\ Branch(conversation_context, MessageLower(message)) = "phone"
    /\ conversation_context' = StorePhone(conversation_context, message)
    /\ call' = LedgerArgs(conversation_context', cached_organizations)
    /\ pc' = "in_ledger"
    /\ hist' = Append(hist, Event(conversation_context, message))
    /\ response' = <<>>
    /\ UNCHANGED <<cached_organizations, sheet>>
    /\ UNCHANGED shown

\* variant: the handler of line 278 leaves the context as it is
ContextAfterException_Kept(ctx) == ctx

\* line 280: self.conversation_context.clear()
ContextAfterException(ctx) == EmptyDict

\* what the tool wrapper reports when invoke() fails before the tool body runs
InvokeError == <<"tool invocation failed">>

\* lines 207, 278-280: log_donation_request.invoke raises instead of
\* returning a payload; nothing is written and run_chat catches it
LedgerRaised ==
    /\ pc = "in_ledger"
    /\ conversation_context' = ContextAfterException(conversation_context)
    /\ response' = UNEXPECTED \o InvokeError
    /\ hist' = <<>>
    /\ pc' = "input"
    /\ call' = NoCall
    /\ UNCHANGED <<cached_organizations, sheet, user_input, result_data, log_result,
                   prev_cache, shown, turns>>

\* lines 212-219: log_donation_request returns
LedgerReturn ==
    /\ pc = "in_ledger"
    /\ \E env \in LedgerEnvs :
         LET r == log_donation_request(call.user_name, call.user_phone,
                                       call.organizations_json, env, sheet, turns)
         IN  /\ sheet' = r.sheet
             /\ log_result' = r.payload
             /\ conversation_context' = ContextAfterLog(conversation_context, r.payload)
             /\ response' = LogResponse(r.payload)
    /\ hist' = <<>>
    /\ pc' = "input"
    /\ call' = NoCall
    /\ UNCHANGED <<cached_organizations, user_input, result_data, prev_cache, turns>>
    /\ UNCHANGED shown

\* lines 221-228
HandleConfirmation(raw) ==
    LET message == UserInput(raw)
        r == AnswerConfirmation(conversation_context, MessageLower(message))
    IN
    /\ Reads(raw)
    /\ Branch(conversation_context, MessageLower(message)) = "confirmation"
    /\ conversation_context' = r.ctx
    /\ response' = r.response
    /\ cached_organizations' =
           CacheAfterConfirmation(cached_organizations, MessageLower(message))
    /\ hist' = IF DOMAIN r.ctx = {} THEN <<>>
               ELSE Append(hist, Event(conversation_context, message))
    /\ UNCHANGED <<pc, sheet, call>>
    /\ UNCHANGED shown

\* lines 230-236: a search message without a location
HandleSearchNoLocation(raw) ==
    LET message == UserInput(raw) IN
    /\ Reads(raw)
    /\ Branch(conversation_context, MessageLower(message)) = "search"
    /\ LocationMatch(message) = NoMatch
    /\ cached_organizations' = CacheAtSearchStart(cached_organizations)
    /\ response' = CLARIFY
    /\ UNCHANGED <<pc, conversation_context, sheet, call, hist>>
    /\ shown' = <<>>

\* lines 230-239, up to the call of find_recipients
HandleSearch(raw) ==
    LET message == UserInput(raw) IN
    /\ Reads(raw)
    /\ Branch(conversation_context, MessageLower(message)) = "search"
    /\ LocationMatch(message) # NoMatch
    /\ cached_organizations' = CacheAtSearchStart(cached_organizations)
    /\ call' = [tool |-> "find_recipients",
                location |-> Strip(LocationMatch(message))]
    /\ pc' = "in_lookup"
    /\ response' = <<>>
    /\ UNCHANGED <<conversation_context, sheet, hist>>
    /\ shown' = <<>>

\* lines 240-249: find_recipients returned a payload with organizations
LookupFound ==
    /\ pc = "in_lookup"
    /\ \E env \in LookupEnvs :
         LET r == find_recipients(call.location, env) IN
         /\ ~r.raised
         /\ HasRecipients(r.payload)
         /\ result_data' = r.payload
         /\ cached_organizations' = CacheFromLookup(r.payload)
         /\ response' = FoundResponse(call.location, cached_organizations')
    /\ conversation_context' = Put(conversation_context, "awaiting_log_confirmation", TRUE)
    /\ hist' = <<>>
    /\ pc' = "input"
    /\ call' = NoCall
    /\ UNCHANGED <<sheet, user_input, log_result, prev_cache, turns>>
    /\ shown' = cached_organizations'

\* lines 240-242, 250-251: find_recipients returned a payload without any
LookupFailed ==
    /\ pc = "in_lookup"
    /\ \E env \in LookupEnvs :
         LET r == find_recipients(call.location, env) IN
         /\ ~r.raised
         /\ ~HasRecipients(r.payload)
         /\ result_data' = r.payload
         /\ response' = NotFoundResponse(r.payload)
    /\ pc' = "input"
    /\ call' = NoCall
    /\ UNCHANGED <<conversation_context, cached_organizations, sheet, user_input,
                   log_result, prev_cache, hist, turns>>
    /\ UNCHANGED shown

\* lines 278-280: find_recipients raised, run_chat catches it
LookupRaised ==
    /\ pc = "in_lookup"
    /\ \E env \in LookupEnvs :
         LET r == find_recipients(call.location, env) IN
         /\ r.raised
         /\ response' = UNEXPECTED \o r.payload
    /\ conversation_context' = ContextAfterException(conversation_context)
    /\ hist' = <<>>
    /\ pc' = "input"
    /\ call' = NoCall
    /\ UNCHANGED <<cached_organizations, sheet, user_input, result_data, log_result,
                   prev_cache, turns>>
    /\ UNCHANGED shown

\* line 253
HandleHelp(raw) ==
    LET message == UserInput(raw) IN
    /\ Reads(raw)
    /\ Branch(conversation_context, MessageLower(message)) = "help"
    /\ response' = HELP
    /\ UNCHANGED <<pc, conversation_context, cached_organizations, sheet, call, hist>>
    /\ UNCHANGED shown

\* lines 266, 278-280: input() raises EOFError
InputEOF ==
    /\ pc = "input"
    /\ turns < MaxTurns
    /\ turns' = turns + 1
    /\ conversation_context' = ContextAfterException(conversation_context)
    /\ hist' = <<>>
    /\ user_input' = NoMessage
    /\ response' = UNEXPECTED \o <<"EOF when reading a line">>
    /\ result_data' = EmptyDict
    /\ log_result' = EmptyDict
    /\ prev_cache' = cached_organizations
    /\ UNCHANGED <<pc, cached_organizations, sheet, call>>
    /\ UNCHANGED shown

\* lines 275-277: KeyboardInterrupt, at input() or inside a call
Interrupt ==
    /\ pc # "stopped"
    /\ pc' = "stopped"
    /\ response' = GOODBYE
    /\ UNCHANGED <<conversation_context, cached_organizations, sheet, user_input,
                   call, result_data, log_result, prev_cache, hist, turns>>
    /\ UNCHANGED shown

Next ==
    \/ \E raw \in RawInputs : Exit(raw)
    \/ \E raw \in RawInputs : HandleName(raw)
    \/ \E raw \in RawInputs : HandlePhone(raw)
    \/ LedgerReturn
    \/ LedgerRaised
    \/ \E raw \in RawInputs : HandleConfirmation(raw)
    \/ \E raw \in RawInputs : HandleSearchNoLocation(raw)
    \/ \E raw \in RawInputs : HandleSearch(raw)
    \/ LookupFound
    \/ LookupFailed
    \/ LookupRaised
    \/ \E raw \in RawInputs : HandleHelp(raw)
    \/ InputEOF
    \/ Interrupt

Spec == Init /\ [][Next]_vars

(***************************************************************************)
(* log_donation_request on its own: one call of the tool, with arguments   *)
(* and an environment drawn at the start, on a sheet a session can start   *)
(* with.                                                                   *)
(***************************************************************************)
\* the organization lists find_recipients can build, the empty one included
OrganizationLists == {DetailedRecipients(places) : places \in PlaceLists}

DirectCalls ==
    [tool : {"log_donation_request"},
     user_name : {T_name, T_empty},
     user_phone : {T_no},
     organizations_json : {JsonDumps(orgs) : orgs \in OrganizationLists},
     env : LedgerEnvs]

InitLedger ==
    /\ pc = "direct"
    /\ conversation_context = EmptyDict
    /\ cached_organizations = <<>>
    /\ sheet \in InitialSheets
    /\ user_input = NoMessage
    /\ response = <<>>
    /\ call \in DirectCalls
    /\ result_data = EmptyDict
    /\ log_result = EmptyDict
    /\ prev_cache = <<>>
    /\ shown = <<>>
    /\ hist = <<>>
    /\ turns = 0

\* lines 110-152: log_donation_request runs and returns
DirectLedgerCall ==
    /\ pc = "direct"
    /\ LET r == log_donation_request(call.user_name, call.user_phone,
                                     call.organizations_json, call.env, sheet, turns)
       IN  /\ sheet' = r.sheet
           /\ log_result' = r.payload
    /\ pc' = "direct_done"
    /\ turns' = turns + 1
    /\ UNCHANGED <<conversation_context, cached_organizations, user_input, response,
                   call, result_data, prev_cache, hist>>
    /\ UNCHANGED shown

NextLedger == DirectLedgerCall

SpecLedger == InitLedger /\ [][NextLedger]_vars

(***************************************************************************)
(* Properties                                                              *)
(***************************************************************************)
YES == <<"y","e","s">>

\* a step of the loop that gave a message to process_message
Processed == turns' = turns + 1 /\ user_input' # NoMessage

\* the step in which log_donation_request returns
LedgerReturns == pc = "in_ledger" /\ pc' = "input"

\* C1: whenever log_donation_request is being called, the flow in progress
\* since the last successful search consists of exactly three answers: a
\* "yes" (as process_message compares it) given in AWAITING_LOG_CONFIRMATION,
\* then a message given in AWAITING_NAME, then the message given in
\* AWAITING_PHONE that triggered the call; so the ledger is never invoked
\* from IDLE, AWAITING_LOG_CONFIRMATION or AWAITING_NAME.
C1_ConfirmationGate ==
    pc = "in_ledger" =>
        /\ call.tool = "log_donation_request"
        /\ Len(hist) = 3
        /\ hist[1].step = "AWAITING_LOG_CONFIRMATION"
        /\ MessageLower(hist[1].msg) = YES
        /\ hist[2].step = "AWAITING_NAME"
        /\ hist[3].step = "AWAITING_PHONE"
        /\ hist[3].msg = user_input

C1_Witness ==
    /\ pc = "in_ledger"
    /\ hist[1].msg = T_YES
    /\ hist[2].msg = T_name

\* the rows the sheet gained in a step, the header row apart
NewRows ==
    SubSeq(sheet', (IF sheet = <<>> THEN 1 ELSE Len(sheet)) + 1, Len(sheet'))

\* C2: when the flow search, "yes", name, phone completes, the ledger call
\* carries the name and the phone given in that flow and exactly the cached
\* organizations; when it succeeds the sheet gains exactly one row per cached
\* organization, in cache order, each with that name and phone; and the
\* state after the call is IDLE.
C2_OneRecordPerOrganization ==
    [][LedgerReturns =>
        /\ call.user_name = hist[2].msg
        /\ call.user_phone = hist[3].msg
        /\ JsonLoads(call.organizations_json) = cached_organizations
        /\ PendingStep(conversation_context') = "IDLE"
        /\ Truthy(log_result', "success") =>
              /\ Len(NewRows) = Len(cached_organizations)
              /\ \A i \in 1..Len(NewRows) :
                   /\ NewRows[i][1] = hist[2].msg
                   /\ NewRows[i][2] = hist[3].msg
                   /\ NewRows[i][3] = cached_organizations[i].name
                   /\ NewRows[i][4] = cached_organizations[i].phone
                   /\ NewRows[i][5] = cached_organizations[i].website
    ]_vars

C2_Witness ==
    /\ pc = "input"
    /\ Truthy(log_result, "success")
    /\ Len(cached_organizations) = 2
    /\ cached_organizations[1] # cached_organizations[2]
    /\ Len(sheet) >= 3
    /\ sheet[Len(sheet)][1] = T_name
    /\ sheet[Len(sheet)][2] = T_no
    /\ PendingStep(conversation_context) = "IDLE"

\* C3: from AWAITING_LOG_CONFIRMATION a message that equals "yes" when case
\* is ignored moves the state to AWAITING_NAME; every other message moves it
\* to IDLE with the context cleared and the decline text returned; neither
\* branch calls a tool.
C3_OnlyYesAdvances ==
    [][(pc = "input"
        /\ PendingStep(conversation_context) = "AWAITING_LOG_CONFIRMATION"
        /\ Processed) =>
        /\ pc' = "input"
        /\ call' = NoCall
        /\ sheet' = sheet
        /\ IF Lower(user_input') = YES
           THEN PendingStep(conversation_context') = "AWAITING_NAME"
           ELSE /\ PendingStep(conversation_context') = "IDLE"
                /\ DOMAIN conversation_context' = {}
                /\ response' = DECLINED
    ]_vars

C3_Witness ==
    /\ pc = "input"
    /\ user_input = T_YES
    /\ PendingStep(conversation_context) = "AWAITING_NAME"
    /\ response = ASK_NAME

C5_FailedLogClearsState ==
    (pc = "input" /\ DOMAIN log_result # {}) =>
        /\ DOMAIN conversation_context = {}
        /\ PendingStep(conversation_context) = "IDLE"
        /\ "error" \in DOMAIN log_result =>
              /\ Contains(response, log_result["error"])
              /\ response = <<"Error: ">> \o log_result["error"]

C5_Witness ==
    /\ pc = "input"
    /\ "error" \in DOMAIN log_result
    /\ Contains(log_result["error"], ApiException)
    /\ DOMAIN conversation_context = {}

\* C6: when a search message is routed from IDLE the cache is empty while the
\* lookup runs, and when the lookup returns a payload without organizations
\* the cache is empty after the message, whatever it held before, and the
\* state is IDLE.
C6_FailedLookupLeavesNoCache ==
    /\ pc = "in_lookup" => cached_organizations = <<>>
    /\ (pc = "input" /\ DOMAIN result_data # {} /\ ~HasRecipients(result_data)) =>
          /\ cached_organizations = <<>>
          /\ PendingStep(conversation_context) = "IDLE"

C6_Witness ==
    /\ pc = "input"
    /\ "error" \in DOMAIN result_data
    /\ prev_cache # <<>>
    /\ cached_organizations = <<>>
    /\ PendingStep(conversation_context) = "IDLE"

\* C7: when a search message with a location is routed from IDLE and the
\* lookup returns a non-empty list of organizations, the state after the
\* message is AWAITING_LOG_CONFIRMATION and the cache is exactly the returned
\* list, in the returned order, whatever the cache held before.
C7_SuccessfulLookupFillsCache ==
    (pc = "input" /\ HasRecipients(result_data)) =>
        /\ PendingStep(conversation_context) = "AWAITING_LOG_CONFIRMATION"
        /\ cached_organizations = result_data["recipients"]

C7_Witness ==
    /\ pc = "input"
    /\ HasRecipients(result_data)
    /\ Len(cached_organizations) = 2
    /\ cached_organizations[1] # cached_organizations[2]
    /\ Len(prev_cache) = 1
    /\ prev_cache[1] = cached_organizations[2]
    /\ user_input = T_search

\* C8: at most one of the three pending flags is true.
C8_AtMostOnePendingFlag ==
    Cardinality(ActiveFlags(conversation_context)) <= 1

C8_Witness ==
    /\ pc = "input"
    /\ ActiveFlags(conversation_context) = {"awaiting_user_phone"}
    /\ "awaiting_user_name" \in DOMAIN conversation_context
    /\ "awaiting_log_confirmation" \in DOMAIN conversation_context

\* C9: between messages, whenever no pending flag is true the donor's name
\* and phone are unset.
C9_IdleHasNoIdentity ==
    (pc = "input" /\ ActiveFlags(conversation_context) = {}) =>
        /\ "user_name" \notin DOMAIN conversation_context
        /\ "user_phone" \notin DOMAIN conversation_context

C9_Witness ==
    /\ pc = "input"
    /\ Truthy(log_result, "success")
    /\ ActiveFlags(conversation_context) = {}
    /\ "user_name" \notin DOMAIN conversation_context

\* C10: the donor's phone is set only if the donor's name is set.
C10_PhoneOnlyAfterName ==
    "user_phone" \in DOMAIN conversation_context =>
        "user_name" \in DOMAIN conversation_context

C10_Witness ==
    /\ pc = "in_ledger"
    /\ "user_phone" \in DOMAIN conversation_context
    /\ conversation_context["user_phone"] = T_no
    /\ conversation_context["user_name"] = T_name

\* a step that gave a message to process_message while a step was pending
AnswersPendingStep ==
    /\ pc = "input"
    /\ PendingStep(conversation_context) # "IDLE"
    /\ Processed

\* C11: while a pending step is active every message, also one with a search
\* keyword and an "in <location>" clause, is taken as the answer to that
\* step: find_recipients is not called and the cache is not touched.
C11_PendingStepWins ==
    [][AnswersPendingStep =>
        /\ pc' # "in_lookup"
        /\ call'.tool # "find_recipients"
        /\ cached_organizations' = cached_organizations
        /\ response' \notin {CLARIFY, HELP}
        /\ PendingStep(conversation_context) = "AWAITING_LOG_CONFIRMATION"
              => response' \in {ASK_NAME, DECLINED}
        /\ PendingStep(conversation_context) = "AWAITING_NAME"
              => /\ response' = ASK_PHONE
                 /\ conversation_context'["user_name"] = user_input'
        /\ PendingStep(conversation_context) = "AWAITING_PHONE"
              => /\ pc' = "in_ledger"
                 /\ call'.user_phone = user_input'
    ]_vars

C11_Witness ==
    /\ pc = "input"
    /\ PendingStep(conversation_context) = "AWAITING_PHONE"
    /\ conversation_context["user_name"] = T_search
    /\ cached_organizations # <<>>

\* the message has none of the three search keywords, whatever its case
NoKeyword(m) ==
    /\ ~Contains(Lower(m), K_find)
    /\ ~Contains(Lower(m), K_donate)
    /\ ~Contains(Lower(m), K_where_can)

\* C12: in IDLE a message without a search keyword gets the help text, calls
\* no tool and leaves the context, the cache and the sheet as they were; the
\* same message given again gets the same reply.
C12_HelpChangesNothing ==
    [][(pc = "input"
        /\ PendingStep(conversation_context) = "IDLE"
        /\ Processed
        /\ NoKeyword(user_input')) =>
        /\ response' = HELP
        /\ pc' = "input"
        /\ call' = NoCall
        /\ DOMAIN conversation_context' = DOMAIN conversation_context
        /\ PendingStep(conversation_context') = "IDLE"
        /\ cached_organizations' = cached_organizations
        /\ sheet' = sheet
        /\ hist' = hist
        /\ (user_input = user_input' /\ response = HELP) => response' = response
    ]_vars

C12_Witness ==
    /\ pc = "input"
    /\ response = HELP
    /\ user_input = T_name
    /\ turns = 4
    /\ PendingStep(conversation_context) = "IDLE"
    /\ cached_organizations # <<>>
    /\ prev_cache = cached_organizations

\* the human-readable reason a find_recipients payload without
\* organizations carries: under 'error', or under 'message' when nothing
\* was found
FailureReason(data) ==
    IF "error" \in DOMAIN data THEN data["error"] ELSE data["message"]

\* C13: for every kind of lookup failure the reply to the search message
\* contains the reason find_recipients gave, and never a generic text in its
\* place.
C13_FailureReasonVerbatim ==
    (pc = "input" /\ DOMAIN result_data # {} /\ ~HasRecipients(result_data)) =>
        /\ Contains(response, FailureReason(result_data))
        /\ ~Contains(response, UNKNOWN)

\* C15: the name and the phone handed to log_donation_request are the
\* messages given in AWAITING_NAME and AWAITING_PHONE, unchanged, and neither
\* is empty.
C15_IdentityNonEmptyVerbatim ==
    pc = "in_ledger" =>
        /\ call.user_name = hist[2].msg
        /\ call.user_phone = hist[3].msg
        /\ call.user_name # <<>>
        /\ call.user_phone # <<>>

\* C14: in IDLE, for a message with a search keyword, find_recipients is
\* called exactly when the message has "in", a blank and more text after it
\* (whatever the case), and the location it gets is trimmed and never empty;
\* otherwise the reply is the clarification prompt, no tool is called and the
\* state stays IDLE.
C14_LookupNeedsLocation ==
    [][(pc = "input"
        /\ PendingStep(conversation_context) = "IDLE"
        /\ Processed
        /\ ~NoKeyword(user_input')) =>
        IF InMatches(user_input') # {}
        THEN /\ pc' = "in_lookup"
             /\ call'.tool = "find_recipients"
             /\ call'.location # <<>>
             /\ call'.location = Strip(call'.location)
             /\ Contains(user_input', call'.location)
        ELSE /\ pc' = "input"
             /\ call' = NoCall
             /\ response' = CLARIFY
             /\ PendingStep(conversation_context') = "IDLE"
    ]_vars

C14_Witness ==
    /\ pc = "in_lookup"
    /\ user_input = T_search
    /\ call.location = <<"P","u","n","e">>

\* a call of log_donation_request with an empty organization list, a sheet
\* id, a key file and a sheet that answers
EmptyListCall ==
    /\ pc = "direct"
    /\ pc' = "direct_done"
    /\ JsonLoads(call.organizations_json) = <<>>
    /\ call.env.sheet_id = "set"
    /\ call.env.raises \in {"none", "append_rows"}

\* C16 as stated: such a call writes no row at all, whatever the sheet held,
\* the empty sheet included, and reports success.
C16_EmptyListWritesNothing ==
    [][EmptyListCall => (Truthy(log_result', "success") /\ sheet' = sheet)]_vars

\* C16, amended: such a call reports success and writes no organization row;
\* the one row it writes is the header row, and only to an empty sheet.
C16_EmptyListWritesHeaderOnly ==
    [][EmptyListCall =>
        /\ Truthy(log_result', "success")
        /\ sheet' = IF sheet = <<>> THEN <<HeaderRow>> ELSE sheet
    ]_vars

C16_Witness ==
    /\ pc = "direct_done"
    /\ JsonLoads(call.organizations_json) = <<>>
    /\ Truthy(log_result, "success")
    /\ sheet = <<HeaderRow>>

\* C17: whenever a pending step is active the cache is not empty, and
\* log_donation_request is never called with an empty organization list.
C17_PendingStepHasOrganizations ==
    /\ PendingStep(conversation_context) # "IDLE" => cached_organizations # <<>>
    /\ pc = "in_ledger" =>
          /\ cached_organizations # <<>>
          /\ JsonLoads(call.organizations_json) # <<>>

C17_Witness ==
    /\ pc = "in_ledger"
    /\ Len(JsonLoads(call.organizations_json)) = 1
    /\ Len(cached_organizations) = 1

\* C18: from the reply that lists the organizations until the ledger call
\* the cache stays what that reply listed, whatever the messages that answer
\* the pending steps, and log_donation_request is sent exactly that list.
C18_LedgerGetsTheListShown ==
    /\ PendingStep(conversation_context) # "IDLE" =>
          /\ cached_organizations = shown
          /\ shown # <<>>
    /\ pc = "in_ledger" =>
          /\ cached_organizations = shown
          /\ JsonLoads(call.organizations_json) = shown

C18_Witness ==
    /\ pc = "in_ledger"
    /\ Len(shown) = 2
    /\ shown[1] # shown[2]
    /\ JsonLoads(call.organizations_json) = shown
    /\ hist[2].msg = T_search

\* C19: a message that answers a pending step always moves the conversation
\* to the next step (confirmation to name or idle, name to phone, phone to
\* idle), the messages answered since the confirmation question number at
\* most two before the phone is given, and whatever log_donation_request
\* returns the conversation is idle afterwards.
C19_PendingStepsAdvance ==
    [][/\ AnswersPendingStep =>
            LET s == PendingStep(conversation_context)
                t == PendingStep(conversation_context')
            IN  /\ t # s
                /\ s = "AWAITING_LOG_CONFIRMATION" =>
                      /\ t \in {"AWAITING_NAME", "IDLE"}
                      /\ Len(hist) = 0
                /\ s = "AWAITING_NAME" =>
                      /\ t = "AWAITING_PHONE"
                      /\ Len(hist) = 1
                /\ s = "AWAITING_PHONE" =>
                      /\ t = "IDLE"
                      /\ Len(hist) = 2
       /\ pc = "in_ledger" =>
            /\ PendingStep(conversation_context) = "IDLE"
            /\ PendingStep(conversation_context') = "IDLE"
    ]_vars

C19_Witness ==
    /\ pc = "input"
    /\ "error" \in DOMAIN log_result
    /\ turns = 4
    /\ user_input = T_yes
    /\ PendingStep(conversation_context) = "IDLE"

\* the last thing run_chat printed is the report of a caught exception
ExceptionReported == response # <<>> /\ <<Head(response)>> = UNEXPECTED

\* C20: after an exception caught by the chat loop, raised by input(), by
\* find_recipients or by the invocation of log_donation_request, the loop is
\* back at its prompt and the context is empty: no pending step and no donor
\* identity.
C20_ExceptionClearsContext ==
    ExceptionReported =>
        /\ pc = "input"
        /\ DOMAIN conversation_context = {}
        /\ PendingStep(conversation_context) = "IDLE"
        /\ call = NoCall

C20_Witness ==
    /\ response = UNEXPECTED \o InvokeError
    /\ pc = "input"
    /\ DOMAIN conversation_context = {}
    /\ user_input = T_no
    /\ Len(cached_organizations) = 2

====
